---- MODULE Spec2Model ----
(***************************************************************************)
(* Real-time poll system: the rate limiter (RateLimiter), the vote ledger  *)
(* (PollService over the Poll/Option/Vote tables) and the HTTP handlers    *)
(* that drive them (app.py).                                                *)
(***************************************************************************)
EXTENDS Integers, Sequences, FiniteSets, TLC

\* ------------------------------------------------------------------ bounds
NumProcs == 2         \* request handlers in flight at once
MaxTime == 4          \* last clock value explored by the limiter specifications
MaxCalls == 6         \* calls recorded in the limiter's decision log
MaxThreadCalls == 3   \* calls made in all by the preemptible threads
MaxRequests == 2      \* RateLimiter.max_requests used in the model
WindowSeconds == 2    \* RateLimiter.window_seconds used in the model
MinOptions == 2       \* Config.MIN_OPTIONS
MaxOptions == 2       \* largest option list a created poll is given here
MaxOptionsLimit == 3  \* max_options of create_poll used in the model
MaxBallots == 3       \* votes in the tables the lookups start from

Procs == 1..NumProcs
IPs == {"ip1", "ip2"}
Tokens == {"t1", "t2"}
PollCodes == {"P1", "P2"}             \* codes as stored: upper case
CodeSpellings == {"P1", "p1", "P2"}   \* codes as clients send them
Sids == {"s1", "s2"}                  \* Socket.IO clients
None == "none"

VARIABLES
    now,         \* time.time()
    requests,    \* RateLimiter._requests: ip -> list of admitted timestamps
    admitLog,    \* history: every is_allowed decision <<ip, time, allowed>>
    polls,       \* committed Poll rows
    options,     \* committed Option rows: option id -> [poll_id, vote_count]
    votes,       \* committed Vote rows
    pc,          \* position of each request handler
    req,         \* the request a handler is serving
    loc,         \* the handler's locals and its session's open transaction
    result,      \* outcome of the handler's request
    response,    \* results snapshot sent back in the handler's HTTP response
    broadcasts,  \* vote_update events emitted, in emission order
    effect,      \* history: what each handler's transaction changed in the tables
    rl,          \* locals of is_allowed calls running as separate threads
    cr,          \* the create_poll call each handler is running
    lookup,      \* the last lookup served by an entry point and what it answered
    rooms,       \* Socket.IO rooms: client sid -> rooms the client is in
    inbox        \* client sid -> the vote_update events delivered to it, in order

vars == <<now, requests, admitLog, polls, options, votes, pc, req, loc, result,
          response, broadcasts, effect, rl, cr, lookup, rooms, inbox>>

ledgerVars == <<polls, options, votes>>
handlerVars == <<pc, req, loc, result, response, broadcasts, effect>>
limiterVars == <<now, requests, admitLog>>

\* ------------------------------------------------------------ rate limiter
\* self._requests[ip] with a missing key read as the empty list (lines 85-86)
RequestsOf(reqs, ip) == IF ip \in DOMAIN reqs THEN reqs[ip] ELSE <<>>

\* the list comprehension of lines 89-92
PruneKeepAll(list, window_start) == list

Prune(list, window_start) ==
    SelectSeq(list, LAMBDA req_time : req_time > window_start)

SetKey(f, k, v) == [x \in (DOMAIN f) \cup {k} |-> IF x = k THEN v ELSE f[x]]

\* RateLimiter.is_allowed run without interruption: the decision and the map after
IsAllowedNoLimit(reqs, ip, t) ==
    LET pruned == Prune(RequestsOf(reqs, ip), t - WindowSeconds)
    IN  [allowed |-> TRUE, requests |-> SetKey(reqs, ip, Append(pruned, t))]

IsAllowed(reqs, ip, t) ==
    LET pruned == Prune(RequestsOf(reqs, ip), t - WindowSeconds)
    IN  IF Len(pruned) >= MaxRequests
        THEN [allowed |-> FALSE, requests |-> SetKey(reqs, ip, pruned)]
        ELSE [allowed |-> TRUE, requests |-> SetKey(reqs, ip, Append(pruned, t))]

\* one decision of the limiter, as the history records it
LogEntry(ip, t, allowed) == [ip |-> ip, time |-> t, allowed |-> allowed]

\* time.time() moves on
Tick ==
    /\ now < MaxTime
    /\ now' = now + 1
    /\ UNCHANGED <<requests, admitLog, polls, options, votes, pc, req, loc, result,
                   response, broadcasts, effect, rl, cr, lookup, rooms, inbox>>

\* one call of rate_limiter.is_allowed(ip) that no other call interrupts
LimiterCall(ip) ==
    /\ Len(admitLog) < MaxCalls
    /\ requests' = IsAllowed(requests, ip, now).requests
    /\ admitLog' = Append(admitLog, LogEntry(ip, now, IsAllowed(requests, ip, now).allowed))
    /\ UNCHANGED <<now, polls, options, votes, pc, req, loc, result, response,
                   broadcasts, effect, rl, cr, lookup, rooms, inbox>>

\* is_allowed run by threads that may be preempted between its statements
IdleCall == [pc |-> "idle", ip |-> None, current_time |-> 0, list |-> <<>>]

InFlight == Cardinality({p \in Procs : rl[p].pc # "idle"})

threadFrame == <<polls, options, votes, pc, req, loc, result, response, broadcasts,
                 effect, cr, lookup, rooms, inbox>>

\* lines 81-82
ThreadStart(p, ip) ==
    /\ rl[p].pc = "idle"
    /\ Len(admitLog) + InFlight < MaxThreadCalls
    /\ rl' = [rl EXCEPT ![p] = [pc |-> "test", ip |-> ip, current_time |-> now,
                                list |-> <<>>]]
    /\ UNCHANGED <<now, requests, admitLog, threadFrame>>

\* line 85
ThreadTest(p) ==
    /\ rl[p].pc = "test"
    /\ rl' = [rl EXCEPT ![p].pc = IF rl[p].ip \in DOMAIN requests THEN "read" ELSE "init"]
    /\ UNCHANGED <<now, requests, admitLog, threadFrame>>

\* line 86
ThreadInit(p) ==
    /\ rl[p].pc = "init"
    /\ requests' = SetKey(requests, rl[p].ip, <<>>)
    /\ rl' = [rl EXCEPT ![p].pc = "read"]
    /\ UNCHANGED <<now, admitLog, threadFrame>>

\* lines 89-92, right-hand side: the comprehension builds the pruned list
ThreadRead(p) ==
    /\ rl[p].pc = "read"
    /\ rl' = [rl EXCEPT ![p].pc = "store",
                        ![p].list = Prune(requests[rl[p].ip],
                                          rl[p].current_time - WindowSeconds)]
    /\ UNCHANGED <<now, requests, admitLog, threadFrame>>

\* lines 89-92, the assignment
ThreadStore(p) ==
    /\ rl[p].pc = "store"
    /\ requests' = SetKey(requests, rl[p].ip, rl[p].list)
    /\ rl' = [rl EXCEPT ![p].pc = "check", ![p].list = <<>>]
    /\ UNCHANGED <<now, admitLog, threadFrame>>

\* lines 95-96
ThreadCheck(p) ==
    /\ rl[p].pc = "check"
    /\ IF Len(requests[rl[p].ip]) >= MaxRequests
       THEN /\ admitLog' = Append(admitLog, LogEntry(rl[p].ip, rl[p].current_time, FALSE))
            /\ rl' = [rl EXCEPT ![p] = IdleCall]
       ELSE /\ rl' = [rl EXCEPT ![p].pc = "append"]
            /\ UNCHANGED admitLog
    /\ UNCHANGED <<now, requests, threadFrame>>

\* lines 99-100
ThreadAppend(p) ==
    /\ rl[p].pc = "append"
    /\ requests' = SetKey(requests, rl[p].ip,
                          Append(requests[rl[p].ip], rl[p].current_time))
    /\ admitLog' = Append(admitLog, LogEntry(rl[p].ip, rl[p].current_time, TRUE))
    /\ rl' = [rl EXCEPT ![p] = IdleCall]
    /\ UNCHANGED <<now, threadFrame>>

\* ------------------------------------------------------------------ ledger
PollByCode(code) == {p \in polls : p.poll_code = code}
OptionIds == DOMAIN options
OptionsOf(poll_id) == {o \in OptionIds : options[o].poll_id = poll_id}
VotesOfPoll(poll_id) == {v \in votes : v.poll_id = poll_id}
VotesOfOption(o) == {v \in votes : v.option_id = o}

\* the next AUTOINCREMENT primary keys
NextPollId == Cardinality(polls) + 1
NextVoteId == Cardinality(votes) + 1

RECURSIVE SortedIds(_)
SortedIds(S) ==
    IF S = {} THEN <<>>
    ELSE LET m == CHOOSE x \in S : \A y \in S : x <= y
         IN  <<m>> \o SortedIds(S \ {m})

RECURSIVE SumCounts(_, _)
SumCounts(opts, ids) ==
    IF ids = <<>> THEN 0
    ELSE opts[Head(ids)].vote_count + SumCounts(opts, Tail(ids))

\* Poll.options: relationship ordered by Option.id
PollOptions(poll_id) == SortedIds(OptionsOf(poll_id))

\* uq_vote_poll_ip and uq_vote_poll_token, as the storage enforces them on INSERT
UniqueIpOnly(vs, v) ==
    \E w \in vs : w.poll_id = v.poll_id /\ w.ip_address = v.ip_address

UniqueNone(vs, v) == FALSE

UniqueViolation(vs, v) ==
    \E w \in vs : /\ w.poll_id = v.poll_id
                  /\ \/ w.ip_address = v.ip_address
                     \/ w.browser_token = v.browser_token

\* UPDATE options SET vote_count = vote_count + 1 WHERE id = :option_id,
\* evaluated by the storage on the row's current value; seen is the count the
\* session loaded with the Option object and is not used by the statement
IncrementFromLoadedObject(opts, option_id, seen) ==
    [opts EXCEPT ![option_id].vote_count = seen + 1]

IncrementVoteCount(opts, option_id, seen) ==
    [opts EXCEPT ![option_id].vote_count = @ + 1]

\* db.commit() of the transaction holding the UPDATE and the new Vote
CommitWrite(opts, vs, v, seen) ==
    [options |-> IncrementVoteCount(opts, v.option_id, seen), votes |-> vs \cup {v}]

\* db.rollback(): nothing of the transaction reaches the tables
RollbackKeepsUpdate(opts, vs, v, seen) ==
    [options |-> IncrementVoteCount(opts, v.option_id, seen), votes |-> vs]

RollbackWrite(opts, vs, v, seen) == [options |-> opts, votes |-> vs]

\* PollService.get_results: the snapshot, or None when the code is unknown
\* round(x, 1) of x = count / total * 100, in tenths of a percent; Python
\* rounds a float that lies exactly between two tenths to the even one
RoundDown(count, total) == (1000 * count) \div total

Round1(count, total) ==
    LET q == (1000 * count) \div total
        r == (1000 * count) % total
    IN  IF 2 * r > total THEN q + 1
        ELSE IF 2 * r < total THEN q
        ELSE IF q % 2 = 0 THEN q ELSE q + 1

\* lines 431-436
Percentage(count, total) == IF total > 0 THEN Round1(count, total) ELSE 0

GetResults(code) ==
    IF PollByCode(code) = {} THEN None
    ELSE LET poll == CHOOSE p \in PollByCode(code) : TRUE
             ids == PollOptions(poll.id)
             total == SumCounts(options, ids)
         IN  [poll_code |-> code,
              question |-> poll.question,
              created_at |-> poll.created_at,
              total_votes |-> total,
              options |-> [i \in 1..Len(ids) |->
                              [id |-> ids[i],
                               option_text |-> options[ids[i]].option_text,
                               vote_count |-> options[ids[i]].vote_count,
                               percentage |->
                                   Percentage(options[ids[i]].vote_count, total)]]]

\* ------------------------------------------------------------- create_poll
MaxQuestionLength == 1   \* max_question_length used in the model
MaxOptionLength == 2     \* max_option_length used in the model
MaxAttempts == 10        \* max_attempts of _generate_unique_poll_code

\* texts are sequences of characters; " " is the whitespace str.strip() removes
Questions == {<<" ">>, <<"q">>, <<" ", "q", " ">>, <<"q", "q">>}
RawTexts == {<<" ">>, <<"a">>, <<" ", "a">>, <<"b", " ">>, <<"a", "b">>,
             <<"a", "b", "a">>}

RECURSIVE LStrip(_)
LStrip(s) == IF s # <<>> /\ Head(s) = " " THEN LStrip(Tail(s)) ELSE s

RECURSIVE RStrip(_)
RStrip(s) ==
    IF s # <<>> /\ s[Len(s)] = " " THEN RStrip(SubSeq(s, 1, Len(s) - 1)) ELSE s

\* str.strip()
StripNothing(s) == s

Strip(s) == RStrip(LStrip(s))

\* option lists of at most n raw texts
RECURSIVE OptionLists(_)
OptionLists(n) ==
    IF n = 0 THEN {<<>>}
    ELSE OptionLists(n - 1) \cup
         {Append(l, t) : l \in {x \in OptionLists(n - 1) : Len(x) = n - 1}, t \in RawTexts}

\* cleaned_options of lines 180-190
CleanedOptions(opts) == [i \in 1..Len(opts) |-> Strip(opts[i])]

\* line 193: len(cleaned_options) != len(set(cleaned_options))
DuplicatesIgnored(cleaned) == FALSE

HasDuplicates(cleaned) ==
    Len(cleaned) # Cardinality({cleaned[i] : i \in 1..Len(cleaned)})

\* lines 163-194: the message of the ValidationError raised, or None
ValidationErrorOf(question, opts) ==
    IF Strip(question) = <<>> THEN "Question is required"
    ELSE IF Len(Strip(question)) > MaxQuestionLength THEN "Question is too long"
    ELSE IF Len(opts) < MinOptions THEN "At least min_options options are required"
    ELSE IF Len(opts) > MaxOptionsLimit THEN "Maximum max_options options allowed"
    ELSE IF \E i \in 1..Len(opts) :
               /\ \/ Strip(opts[i]) = <<>>
                  \/ Len(Strip(opts[i])) > MaxOptionLength
               /\ \A j \in 1..(i - 1) :
                      Strip(opts[j]) # <<>> /\ Len(Strip(opts[j])) <= MaxOptionLength
         THEN LET i == CHOOSE k \in 1..Len(opts) :
                           /\ \/ Strip(opts[k]) = <<>>
                              \/ Len(Strip(opts[k])) > MaxOptionLength
                           /\ \A j \in 1..(k - 1) :
                                  /\ Strip(opts[j]) # <<>>
                                  /\ Len(Strip(opts[j])) <= MaxOptionLength
              IN  IF Strip(opts[i]) = <<>> THEN "Options cannot be empty"
                  ELSE "Each option is too long"
    ELSE IF HasDuplicates(CleanedOptions(opts)) THEN "Options must be unique"
    ELSE None

\* lines 200-210: the Poll row and its Option rows, inserted by one commit
InsertPollOnly(ps, opts, code, question, cleaned) ==
    [polls |-> ps \cup {[id |-> NextPollId, poll_code |-> code, question |-> question,
                         created_at |-> now]},
     options |-> opts]

InsertPoll(ps, opts, code, question, cleaned) ==
    [polls |-> ps \cup {[id |-> NextPollId, poll_code |-> code, question |-> question,
                         created_at |-> now]},
     options |-> opts \o [i \in 1..Len(cleaned) |->
                            [poll_id |-> NextPollId, option_text |-> cleaned[i],
                             vote_count |-> 0]]]

\* the unique index on polls.poll_code (models.py line 37)
CodeNeverTaken(ps, code) == FALSE

CodeTaken(ps, code) == \E x \in ps : x.poll_code = code

\* ---------------------------------------------------------------- handlers
NoReq == [poll_code |-> None, option_id |-> 0, ip |-> None, token |-> None,
          admitted |-> TRUE]
NoEffect == [votes |-> {}, increments |-> 0]
NoLoc == [poll_id |-> 0, seen |-> 0, pending |-> 0]

\* poll_code.upper() on the spellings of the model
Upper(code) ==
    CASE code = "p1" -> "P1"
      [] code = "p2" -> "P2"
      [] OTHER -> code

\* the Vote object built at lines 368-373
VoteOf(p) ==
    [id |-> NextVoteId, poll_id |-> loc[p].poll_id, option_id |-> req[p].option_id,
     ip_address |-> req[p].ip, browser_token |-> req[p].token]

\* the handler returns: outcome kind and the body of its HTTP response
Finish(p, outcome, body) ==
    /\ pc' = [pc EXCEPT ![p] = "done"]
    /\ result' = [result EXCEPT ![p] = outcome]
    /\ response' = [response EXCEPT ![p] = body]
    /\ loc' = [loc EXCEPT ![p] = NoLoc]

\* lines 262-267: the route goes on to the ledger only when is_allowed said yes
RateLimitIgnored(allowed) == TRUE

RateLimitGate(allowed) == allowed

TotalCount(opts) == SumCounts(opts, [i \in 1..Len(opts) |-> i])

\* what a step changed in the tables, charged to the handler that took it
EffectOf(p) ==
    [votes |-> effect[p].votes \cup {v.id : v \in votes' \ votes},
     increments |-> effect[p].increments + TotalCount(options') - TotalCount(options)]

\* the form a browser posts to /create with n option fields filled in
FormQuestion == <<"q">>
FormOptions(n) == [i \in 1..n |-> [j \in 1..i |-> "a"]]

\* POST /create: is_allowed, then PollService.create_poll in one transaction
CreatePoll(ip, code, n) ==
    /\ IsAllowed(requests, ip, now).allowed
    /\ requests' = IsAllowed(requests, ip, now).requests
    /\ ValidationErrorOf(FormQuestion, FormOptions(n)) = None
    /\ ~CodeTaken(polls, code)
    /\ polls' = InsertPoll(polls, options, code, Strip(FormQuestion),
                           CleanedOptions(FormOptions(n))).polls
    /\ options' = InsertPoll(polls, options, code, Strip(FormQuestion),
                             CleanedOptions(FormOptions(n))).options
    /\ UNCHANGED <<now, admitLog, votes, handlerVars, rl, cr, lookup, rooms, inbox>>

CreatePollRateLimited(ip) ==
    /\ ~IsAllowed(requests, ip, now).allowed
    /\ requests' = IsAllowed(requests, ip, now).requests
    /\ UNCHANGED <<now, admitLog, ledgerVars, handlerVars, rl, cr, lookup, rooms, inbox>>

\* POST /poll/<code>/vote up to the rate limit check (lines 239-267)
SubmitVoteRequest(p, code, option_id, ip, token) ==
    /\ pc[p] = "idle"
    /\ requests' = IsAllowed(requests, ip, now).requests
    /\ req' = [req EXCEPT ![p] = [poll_code |-> Upper(code), option_id |-> option_id,
                                  ip |-> ip, token |-> token,
                                  admitted |-> IsAllowed(requests, ip, now).allowed]]
    /\ IF RateLimitGate(IsAllowed(requests, ip, now).allowed)
       THEN /\ pc' = [pc EXCEPT ![p] = "get_poll"]
            /\ UNCHANGED <<result, response, loc>>
       ELSE Finish(p, "RateLimited", "Too many requests. Please try again later.")
    /\ UNCHANGED <<now, admitLog, ledgerVars, broadcasts, effect, rl, cr, lookup, rooms, inbox>>

\* PollService.submit_vote, lines 336-338
GetPoll(p) ==
    /\ pc[p] = "get_poll"
    /\ IF PollByCode(req[p].poll_code) = {}
       THEN Finish(p, "PollNotFound", "Poll not found")
       ELSE /\ loc' = [loc EXCEPT ![p].poll_id =
                          (CHOOSE x \in PollByCode(req[p].poll_code) : TRUE).id]
            /\ pc' = [pc EXCEPT ![p] = "get_option"]
            /\ UNCHANGED <<result, response>>
    /\ UNCHANGED <<limiterVars, ledgerVars, req, broadcasts, effect, rl, cr, lookup, rooms, inbox>>

\* lines 341-344: filter_by(id=option_id, poll_id=poll.id)
OptionAnywhere(option_id, poll_id) == option_id \in OptionIds

OptionBelongs(option_id, poll_id) == option_id \in OptionsOf(poll_id)

\* lines 341-347
GetOption(p) ==
    /\ pc[p] = "get_option"
    /\ IF OptionBelongs(req[p].option_id, loc[p].poll_id)
       THEN /\ loc' = [loc EXCEPT ![p].seen = options[req[p].option_id].vote_count]
            /\ pc' = [pc EXCEPT ![p] = "check_ip"]
            /\ UNCHANGED <<result, response>>
       ELSE Finish(p, "InvalidOption", "Invalid option selected")
    /\ UNCHANGED <<limiterVars, ledgerVars, req, broadcasts, effect, rl, cr, lookup, rooms, inbox>>

\* lines 350-356
CheckIp(p) ==
    /\ pc[p] = "check_ip"
    /\ IF \E v \in VotesOfPoll(loc[p].poll_id) : v.ip_address = req[p].ip
       THEN Finish(p, "DuplicateVote", "You have already voted from this IP address")
       ELSE /\ pc' = [pc EXCEPT ![p] = "check_token"]
            /\ UNCHANGED <<result, response, loc>>
    /\ UNCHANGED <<limiterVars, ledgerVars, req, broadcasts, effect, rl, cr, lookup, rooms, inbox>>

\* lines 358-364
CheckToken(p) ==
    /\ pc[p] = "check_token"
    /\ IF \E v \in VotesOfPoll(loc[p].poll_id) : v.browser_token = req[p].token
       THEN Finish(p, "DuplicateVote", "You have already voted")
       ELSE /\ pc' = [pc EXCEPT ![p] = "execute"]
            /\ UNCHANGED <<result, response, loc>>
    /\ UNCHANGED <<limiterVars, ledgerVars, req, broadcasts, effect, rl, cr, lookup, rooms, inbox>>

\* the row lock an uncommitted UPDATE holds on its Option row
RowLocked(option_id) == \E q \in Procs : loc[q].pending = option_id

\* lines 377-386: db.execute(stmt) inside the session's transaction
ExecuteUpdate(p) ==
    /\ pc[p] = "execute"
    /\ ~RowLocked(req[p].option_id)
    /\ loc' = [loc EXCEPT ![p].pending = req[p].option_id]
    /\ pc' = [pc EXCEPT ![p] = "commit"]
    /\ UNCHANGED <<limiterVars, ledgerVars, req, result, response, broadcasts, effect, rl, cr, lookup, rooms, inbox>>

\* line 389: the flush inserts the Vote; IntegrityError is handled at 401-404
Commit(p) ==
    /\ pc[p] = "commit"
    /\ IF UniqueViolation(votes, VoteOf(p))
       THEN /\ options' = RollbackWrite(options, votes, VoteOf(p), loc[p].seen).options
            /\ votes' = RollbackWrite(options, votes, VoteOf(p), loc[p].seen).votes
            /\ Finish(p, "DuplicateVote", "You have already voted")
       ELSE /\ options' = CommitWrite(options, votes, VoteOf(p), loc[p].seen).options
            /\ votes' = CommitWrite(options, votes, VoteOf(p), loc[p].seen).votes
            /\ loc' = [loc EXCEPT ![p].pending = 0]
            /\ pc' = [pc EXCEPT ![p] = "refresh"]
            /\ UNCHANGED <<result, response>>
    /\ effect' = [effect EXCEPT ![p] = EffectOf(p)]
    /\ UNCHANGED <<limiterVars, polls, req, broadcasts, rl, cr, lookup, rooms, inbox>>

\* lines 405-408: any other error of the write (execute or commit) is rolled back
WriteFailure(p) ==
    /\ pc[p] \in {"execute", "commit"}
    /\ options' = RollbackWrite(options, votes, VoteOf(p), loc[p].seen).options
    /\ votes' = RollbackWrite(options, votes, VoteOf(p), loc[p].seen).votes
    /\ Finish(p, "Failed", "Failed to submit vote")
    /\ effect' = [effect EXCEPT ![p] = EffectOf(p)]
    /\ UNCHANGED <<limiterVars, polls, req, broadcasts, rl, cr, lookup, rooms, inbox>>

\* lines 394-399: db.refresh(poll) and poll.to_dict(), which loads poll.options
\* into the session after the commit expired every object; a stale read would
\* keep the Option loaded at line 341
ResultsFromLoadedOption(p) ==
    LET r == GetResults(req[p].poll_code)
    IN  [r EXCEPT !.options =
            [i \in 1..Len(r.options) |->
                IF r.options[i].id = req[p].option_id
                THEN [r.options[i] EXCEPT !.vote_count = loc[p].seen]
                ELSE r.options[i]]]

LoadedResults(p) == GetResults(req[p].poll_code)

Refresh(p) ==
    /\ pc[p] = "refresh"
    /\ pc' = [pc EXCEPT ![p] = "get_results"]
    /\ response' = [response EXCEPT ![p] = LoadedResults(p)]
    /\ UNCHANGED <<limiterVars, ledgerVars, req, loc, result, broadcasts, effect, rl, cr, lookup, rooms, inbox>>

\* app.py line 282: get_results selects the Poll row again; the session hands
\* back the Poll it holds, with the options and counts loaded by to_dict
ReadResults(p) ==
    /\ pc[p] = "get_results"
    /\ pc' = [pc EXCEPT ![p] = "emit"]
    /\ UNCHANGED <<limiterVars, ledgerVars, req, loc, result, response, broadcasts, effect, rl, cr, lookup, rooms, inbox>>

\* an error raised after the commit: by db.refresh(poll) or poll.to_dict()
\* (lines 394-399, caught at 405-408, where the rollback finds nothing to undo),
\* by get_results or by socketio.emit (app.py lines 282-283, caught at 308-310)
AfterCommitFailure(p) ==
    /\ pc[p] \in {"refresh", "get_results", "emit"}
    /\ Finish(p, "Failed", "Failed to submit vote")
    /\ UNCHANGED <<limiterVars, ledgerVars, req, broadcasts, effect, rl, cr, lookup, rooms, inbox>>

\* app.py lines 282-288: poll_results is read once and handed to both
\* socketio.emit and jsonify
BroadcastRereads(p) == GetResults(req[p].poll_code)

BroadcastPayload(p) == response[p]

\* socketio.emit(..., room=R): event number k goes to the clients in room R
DeliverToAll(inb, rms, room, k) ==
    [sid \in Sids |-> IF rms[sid] # {} THEN Append(inb[sid], k) ELSE inb[sid]]

Deliver(inb, rms, room, k) ==
    [sid \in Sids |-> IF room \in rms[sid] THEN Append(inb[sid], k) ELSE inb[sid]]

\* app.py lines 283-300
EmitAndRespond(p) ==
    /\ pc[p] = "emit"
    /\ broadcasts' = Append(broadcasts, [room |-> req[p].poll_code, by |-> p,
                                         snapshot |-> BroadcastPayload(p)])
    /\ inbox' = Deliver(inbox, rooms, req[p].poll_code, Len(broadcasts) + 1)
    /\ Finish(p, "Accepted", response[p])
    /\ UNCHANGED <<limiterVars, ledgerVars, req, effect, rl, cr, lookup, rooms>>

\* ----------------------------------------------- PollService.create_poll
NoCreate == [pc |-> "idle", question |-> <<>>, options |-> <<>>, code |-> None,
             tries |-> 0, attempts |-> 0, depth |-> 0, outcome |-> None,
             message |-> None, flash |-> None, poll_id |-> 0,
             added |-> [polls |-> 0, options |-> 0]]
NoLookup == [entry |-> None, sid |-> None, code |-> None,
             answer |-> [status |-> None, room |-> None,
                         results |-> [poll_code |-> None, question |-> <<>>, created_at |-> 0,
                                      total_votes |-> 0, options |-> <<>>]]]

\* app.py lines 147-153: what the /create route shows for an exception
FlashOf(kind, message) ==
    IF kind = "ValidationError" THEN message
    ELSE "An error occurred. Please try again."

\* the call ends by raising: kind is the exception class
CreateRaises(c, kind, message) ==
    [c EXCEPT !.pc = "done", !.outcome = kind, !.message = message,
              !.flash = FlashOf(kind, message)]

\* create_poll is entered: lines 163-194
CreatePollCall(p, question, opts) ==
    /\ cr[p].pc = "idle"
    /\ cr' = [cr EXCEPT ![p] =
                 IF ValidationErrorOf(question, opts) # None
                 THEN CreateRaises([@ EXCEPT !.question = question, !.options = opts],
                                   "ValidationError", ValidationErrorOf(question, opts))
                 ELSE [@ EXCEPT !.question = question, !.options = opts,
                                !.pc = "generate"]]
    /\ UNCHANGED <<limiterVars, ledgerVars, handlerVars, rl, lookup, rooms, inbox>>

\* one pass of the loop of _generate_unique_poll_code (lines 230-237);
\* code is what generate_poll_code returned
GenerateCode(p, code) ==
    /\ cr[p].pc = "generate"
    /\ cr' = [cr EXCEPT ![p] =
                 IF PollByCode(code) = {}
                 THEN [@ EXCEPT !.attempts = @ + 1, !.code = code, !.pc = "commit"]
                 ELSE IF cr[p].tries + 1 = MaxAttempts
                 THEN CreateRaises([@ EXCEPT !.attempts = @ + 1, !.tries = @ + 1],
                                   "ValidationError",
                                   "Unable to generate unique poll code")
                 ELSE [@ EXCEPT !.attempts = @ + 1, !.tries = @ + 1]]
    /\ UNCHANGED <<limiterVars, ledgerVars, handlerVars, rl, lookup, rooms, inbox>>

\* lines 208-217: commit; on IntegrityError rollback and call create_poll again
CommitPoll(p) ==
    /\ cr[p].pc = "commit"
    /\ IF CodeTaken(polls, cr[p].code)
       THEN /\ cr' = [cr EXCEPT ![p] =
                         IF ValidationErrorOf(Strip(cr[p].question), cr[p].options) # None
                         THEN CreateRaises(@, "ValidationError",
                                  ValidationErrorOf(Strip(cr[p].question), cr[p].options))
                         ELSE [@ EXCEPT !.pc = "generate", !.code = None, !.tries = 0,
                                        !.depth = @ + 1]]
            /\ UNCHANGED <<polls, options>>
       ELSE /\ polls' = InsertPoll(polls, options, cr[p].code, Strip(cr[p].question),
                                   CleanedOptions(cr[p].options)).polls
            /\ options' = InsertPoll(polls, options, cr[p].code, Strip(cr[p].question),
                                     CleanedOptions(cr[p].options)).options
            /\ cr' = [cr EXCEPT ![p] =
                         [@ EXCEPT !.pc = "done", !.outcome = "Created",
                                   !.poll_id = NextPollId,
                                   !.added = [polls |-> Cardinality(polls') - Cardinality(polls),
                                              options |-> Len(options') - Len(options)]]]
    /\ UNCHANGED <<limiterVars, votes, handlerVars, rl, lookup, rooms, inbox>>

\* -------------------------------------------------- entry points by code
\* an answer that carries no results snapshot
NoResults == [poll_code |-> None, question |-> <<>>, created_at |-> 0, total_votes |-> 0,
              options |-> <<>>]

Answer(status, room, results) == [status |-> status, room |-> room, results |-> results]

\* GET /poll/<code> (app.py lines 157-210): get_poll_by_code(poll_code.upper()),
\* then get_results(poll_code); PollNotFoundError falls to except Exception
ViewPollAnswer(code) ==
    IF PollByCode(Upper(code)) = {} THEN Answer("404", None, NoResults)
    ELSE IF PollByCode(code) = {} THEN Answer("404", None, NoResults)
    ELSE Answer("200", None, GetResults(code))

\* GET /poll/<code>/share (lines 212-236)
SharePollAnswer(code) ==
    IF PollByCode(Upper(code)) = {} THEN Answer("404", None, NoResults)
    ELSE Answer("200", None, NoResults)

\* GET /poll/<code>/results (lines 314-328)
ResultsAnswer(code) ==
    IF PollByCode(Upper(code)) = {} THEN Answer("404", None, NoResults)
    ELSE Answer("200", None, GetResults(Upper(code)))

\* join_poll (lines 350-363): the 'joined' event names the room
JoinPollAnswer(code) == Answer("joined", Upper(code), NoResults)

\* leave_poll (lines 365-372)
LeavePollAnswer(code) == Answer("left", Upper(code), NoResults)

\* request_results (lines 374-397): get_db_session() at line 388 reads the name
\* SessionLocal, which no module-level statement binds
RequestResultsAnswer(code) == Answer("NameError", None, NoResults)

\* connect (lines 338-342): the 'connected' event; disconnect (344-347) only logs
ConnectAnswer == Answer("connected", None, NoResults)
DisconnectAnswer == Answer("disconnected", None, NoResults)

AnswerOf(entry, code) ==
    CASE entry = "view_poll" -> ViewPollAnswer(code)
      [] entry = "share_poll" -> SharePollAnswer(code)
      [] entry = "get_results" -> ResultsAnswer(code)
      [] entry = "join_poll" -> JoinPollAnswer(code)
      [] entry = "leave_poll" -> LeavePollAnswer(code)
      [] entry = "request_results" -> RequestResultsAnswer(code)
      [] entry = "connect" -> ConnectAnswer
      [] entry = "disconnect" -> DisconnectAnswer

Served(entry, sid, code) ==
    lookup' = [entry |-> entry, sid |-> sid, code |-> code,
               answer |-> AnswerOf(entry, code)]

ViewPoll(code) ==
    /\ Served("view_poll", None, code)
    /\ UNCHANGED <<limiterVars, ledgerVars, handlerVars, rl, cr, rooms, inbox>>

SharePoll(code) ==
    /\ Served("share_poll", None, code)
    /\ UNCHANGED <<limiterVars, ledgerVars, handlerVars, rl, cr, rooms, inbox>>

ResultsQuery(code) ==
    /\ Served("get_results", None, code)
    /\ UNCHANGED <<limiterVars, ledgerVars, handlerVars, rl, cr, rooms, inbox>>

\* a connected client is in the room named by its own sid (request.sid)
Connected(sid) == sid \in rooms[sid]

\* the Socket.IO server puts a connecting client into its own room and takes a
\* disconnecting client out of every room
LeaveAllRooms(rms, sid) == [rms EXCEPT ![sid] = {}]

Connect(sid) ==
    /\ ~Connected(sid)
    /\ rooms' = [rooms EXCEPT ![sid] = {sid}]
    /\ Served("connect", sid, None)
    /\ UNCHANGED <<limiterVars, ledgerVars, handlerVars, rl, cr, inbox>>

Disconnect(sid) ==
    /\ Connected(sid)
    /\ rooms' = LeaveAllRooms(rooms, sid)
    /\ Served("disconnect", sid, None)
    /\ UNCHANGED <<limiterVars, ledgerVars, handlerVars, rl, cr, inbox>>

JoinPoll(sid, code) ==
    /\ Connected(sid)
    /\ rooms' = [rooms EXCEPT ![sid] = @ \cup {Upper(code)}]
    /\ Served("join_poll", sid, code)
    /\ UNCHANGED <<limiterVars, ledgerVars, handlerVars, rl, cr, inbox>>

LeavePoll(sid, code) ==
    /\ Connected(sid)
    /\ rooms' = [rooms EXCEPT ![sid] = @ \ {Upper(code)}]
    /\ Served("leave_poll", sid, code)
    /\ UNCHANGED <<limiterVars, ledgerVars, handlerVars, rl, cr, inbox>>

RequestResults(sid, code) ==
    /\ Connected(sid)
    /\ Served("request_results", sid, code)
    /\ UNCHANGED <<limiterVars, ledgerVars, handlerVars, rl, cr, rooms, inbox>>

Init ==
    /\ now = 0
    /\ requests = <<>>
    /\ admitLog = <<>>
    /\ polls = {}
    /\ options = <<>>
    /\ votes = {}
    /\ pc = [p \in Procs |-> "idle"]
    /\ req = [p \in Procs |-> NoReq]
    /\ loc = [p \in Procs |-> NoLoc]
    /\ result = [p \in Procs |-> None]
    /\ response = [p \in Procs |-> None]
    /\ broadcasts = <<>>
    /\ effect = [p \in Procs |-> NoEffect]
    /\ rl = [p \in Procs |-> IdleCall]
    /\ cr = [p \in Procs |-> NoCreate]
    /\ lookup = NoLookup
    /\ rooms = [sid \in Sids |-> {}]
    /\ inbox = [sid \in Sids |-> <<>>]

Next ==
    \/ \E ip \in IPs, code \in PollCodes, n \in MinOptions..MaxOptions :
           CreatePoll(ip, code, n)
    \/ \E ip \in IPs : CreatePollRateLimited(ip)
    \/ \E p \in Procs, code \in CodeSpellings,
          o \in 1..(Cardinality(PollCodes) * MaxOptions),
          ip \in IPs, token \in Tokens : SubmitVoteRequest(p, code, o, ip, token)
    \/ \E p \in Procs : GetPoll(p)
    \/ \E p \in Procs : GetOption(p)
    \/ \E p \in Procs : CheckIp(p)
    \/ \E p \in Procs : CheckToken(p)
    \/ \E p \in Procs : ExecuteUpdate(p)
    \/ \E p \in Procs : Commit(p)
    \/ \E p \in Procs : Refresh(p)
    \/ \E p \in Procs : ReadResults(p)
    \/ \E p \in Procs : EmitAndRespond(p)

Spec == Init /\ [][Next]_vars

\* the same system over a storage whose writes may fail
NextFault ==
    \/ Next
    \/ \E p \in Procs : WriteFailure(p)

SpecFault == Init /\ [][NextFault]_vars

\* the same system over a storage and a message layer any call to which may fail
NextAnyFault ==
    \/ NextFault
    \/ \E p \in Procs : AfterCommitFailure(p)

SpecAnyFault == Init /\ [][NextAnyFault]_vars

\* the limiter alone, its calls one after another while the clock advances
NextLimiter ==
    \/ Tick
    \/ \E ip \in IPs : LimiterCall(ip)

SpecLimiter == Init /\ [][NextLimiter]_vars

\* the limiter alone, called from preemptible threads
NextThreads ==
    \/ Tick
    \/ \E p \in Procs, ip \in IPs : ThreadStart(p, ip)
    \/ \E p \in Procs : ThreadTest(p)
    \/ \E p \in Procs : ThreadInit(p)
    \/ \E p \in Procs : ThreadRead(p)
    \/ \E p \in Procs : ThreadStore(p)
    \/ \E p \in Procs : ThreadCheck(p)
    \/ \E p \in Procs : ThreadAppend(p)

SpecThreads == Init /\ [][NextThreads]_vars

\* create_poll called with any request, on a ledger other requests have filled
NextValidate ==
    \/ \E ip \in IPs, code \in PollCodes, n \in MinOptions..MaxOptions :
           CreatePoll(ip, code, n)
    \/ \E question \in Questions, opts \in OptionLists(MaxOptionsLimit + 1) :
           CreatePollCall(1, question, opts)
    \/ \E code \in PollCodes : GenerateCode(1, code)
    \/ CommitPoll(1)

SpecValidate == Init /\ [][NextValidate]_vars

\* the requests the concurrent create_poll calls are made with
RaceRequests ==
    {<<<<"q">>, <<<<"a">>, <<"b", " ">>>>>>,
     <<<<" ", "q", " ">>, <<<<" ", "a">>, <<"a", "b">>>>>>}

\* create_poll calls running side by side
NextCreate ==
    \/ \E code \in PollCodes, n \in MinOptions..MaxOptions : CreatePoll("ip1", code, n)
    \/ \E p \in Procs, r \in RaceRequests : CreatePollCall(p, r[1], r[2])
    \/ \E p \in Procs, code \in PollCodes : GenerateCode(p, code)
    \/ \E p \in Procs : CommitPoll(p)

SpecCreate == Init /\ [][NextCreate]_vars

\* the tables of a server started over a database that holds poll P1 with n
\* options and the votes cast on it, and poll P2 or not
SeedTexts == <<<<"a">>, <<"b">>, <<"a", "b">>, <<"b", "a">>>>
SeedVoters == <<"v1", "v2", "v3", "v4">>

SeedPolls(withP2) ==
    {[id |-> 1, poll_code |-> "P1", question |-> <<"q">>, created_at |-> 0]} \cup
    (IF withP2
     THEN {[id |-> 2, poll_code |-> "P2", question |-> <<"q">>, created_at |-> 0]}
     ELSE {})

SeedOptions(n, ballots, withP2) ==
    [i \in 1..n |->
        [poll_id |-> 1, option_text |-> SeedTexts[i],
         vote_count |-> Cardinality({k \in DOMAIN ballots : ballots[k] = i})]]
    \o (IF withP2
        THEN [i \in 1..MinOptions |->
                 [poll_id |-> 2, option_text |-> SeedTexts[i], vote_count |-> 0]]
        ELSE <<>>)

SeedVotes(ballots) ==
    {[id |-> k, poll_id |-> 1, option_id |-> ballots[k],
      ip_address |-> SeedVoters[k], browser_token |-> SeedVoters[k]] : k \in DOMAIN ballots}

InitLookup ==
    /\ now = 0
    /\ requests = <<>>
    /\ admitLog = <<>>
    /\ \E n \in MinOptions..MaxOptionsLimit, m \in 0..MaxBallots, withP2 \in BOOLEAN :
           \E ballots \in [1..m -> 1..n] :
               /\ polls = SeedPolls(withP2)
               /\ options = SeedOptions(n, ballots, withP2)
               /\ votes = SeedVotes(ballots)
    /\ pc = [p \in Procs |-> "idle"]
    /\ req = [p \in Procs |-> NoReq]
    /\ loc = [p \in Procs |-> NoLoc]
    /\ result = [p \in Procs |-> None]
    /\ response = [p \in Procs |-> None]
    /\ broadcasts = <<>>
    /\ effect = [p \in Procs |-> NoEffect]
    /\ rl = [p \in Procs |-> IdleCall]
    /\ cr = [p \in Procs |-> NoCreate]
    /\ lookup = NoLookup
    /\ rooms = [sid \in Sids |-> {}]
    /\ inbox = [sid \in Sids |-> <<>>]

\* the entry points that take a poll code and read the ledger
NextLookup ==
    \/ \E sid \in Sids : Connect(sid)
    \/ \E sid \in Sids : Disconnect(sid)
    \/ \E code \in CodeSpellings : ViewPoll(code)
    \/ \E code \in CodeSpellings : SharePoll(code)
    \/ \E code \in CodeSpellings : ResultsQuery(code)
    \/ \E sid \in Sids, code \in CodeSpellings : JoinPoll(sid, code)
    \/ \E sid \in Sids, code \in CodeSpellings : LeavePoll(sid, code)
    \/ \E sid \in Sids, code \in CodeSpellings : RequestResults(sid, code)

SpecLookup == InitLookup /\ [][NextLookup]_vars

\* the voter behind each vote handler while clients come and go
RoomVoter(p) == IF p = 1 THEN [ip |-> "ip1", token |-> "t1"]
                         ELSE [ip |-> "ip2", token |-> "t2"]

\* the vote handlers and the Socket.IO clients of one poll's room
NextRooms ==
    \/ CreatePoll("ip2", "P1", MinOptions)
    \/ \E p \in Procs, code \in CodeSpellings :
           SubmitVoteRequest(p, code, 1, RoomVoter(p).ip, RoomVoter(p).token)
    \/ \E p \in Procs : GetPoll(p)
    \/ \E p \in Procs : GetOption(p)
    \/ \E p \in Procs : CheckIp(p)
    \/ \E p \in Procs : CheckToken(p)
    \/ \E p \in Procs : ExecuteUpdate(p)
    \/ \E p \in Procs : Commit(p)
    \/ \E p \in Procs : Refresh(p)
    \/ \E p \in Procs : ReadResults(p)
    \/ \E p \in Procs : EmitAndRespond(p)
    \/ \E sid \in Sids : Connect(sid)
    \/ \E sid \in Sids : Disconnect(sid)
    \/ \E sid \in Sids, code \in CodeSpellings : JoinPoll(sid, code)
    \/ \E sid \in Sids, code \in CodeSpellings : LeavePoll(sid, code)

SpecRooms == Init /\ [][NextRooms]_vars

\* ------------------------------------------------------------------ claims
\* a submit_vote call that got past the limiter, the poll lookup and the option check
Validated(p) ==
    /\ req[p] # NoReq
    /\ req[p].admitted
    /\ result[p] \notin {"PollNotFound", "InvalidOption"}

SameIdentity(p, q) == req[p].ip = req[q].ip \/ req[p].token = req[q].token

IpGroup(code, ip) ==
    {p \in Procs : Validated(p) /\ req[p].poll_code = code /\ req[p].ip = ip}

TokenGroup(code, token) ==
    {p \in Procs : Validated(p) /\ req[p].poll_code = code /\ req[p].token = token}

\* the calls of G have all returned and no call outside G shares an identity with them
Settled(G, code) ==
    /\ Cardinality(G) >= 2
    /\ \A p \in G : pc[p] = "done"
    /\ \A r \in Procs \ G :
           (Validated(r) /\ req[r].poll_code = code) => \A p \in G : ~SameIdentity(p, r)

ExactlyOneAccepted(G) ==
    /\ Cardinality({p \in G : result[p] = "Accepted"}) = 1
    /\ \A p \in G : result[p] \in {"Accepted", "DuplicateVote"}
    /\ Cardinality(UNION {effect[p].votes : p \in G}) = 1

\* C1: of N >= 2 submit_vote calls for one poll and valid options that all carry
\* the same IP (or all the same browser token), however interleaved, exactly one
\* is Accepted, the others end DuplicateVote and one Vote row is committed.
C1_OneVotePerIdentity ==
    /\ \A code \in PollCodes, ip \in IPs :
           Settled(IpGroup(code, ip), code) => ExactlyOneAccepted(IpGroup(code, ip))
    /\ \A code \in PollCodes, token \in Tokens :
           Settled(TokenGroup(code, token), code) =>
               ExactlyOneAccepted(TokenGroup(code, token))

\* two calls with one IP and one token that both passed the SELECT checks: the
\* loser was stopped by the constraint at commit
C1_Witness ==
    \E p, q \in Procs :
        /\ p # q
        /\ pc[p] = "done" /\ pc[q] = "done"
        /\ req[p].poll_code = req[q].poll_code
        /\ req[p].ip = req[q].ip /\ req[p].token = req[q].token
        /\ result[p] = "Accepted"
        /\ result[q] = "DuplicateVote" /\ response[q] = "You have already voted"

\* C2: every Option's vote_count equals the number of Vote rows referencing it,
\* and every poll's counts sum to the number of its Vote rows.
C2_Tally ==
    /\ \A o \in OptionIds : options[o].vote_count = Cardinality(VotesOfOption(o))
    /\ \A poll \in polls :
           SumCounts(options, PollOptions(poll.id)) = Cardinality(VotesOfPoll(poll.id))

\* two handlers have both committed a vote for the same option and neither has
\* returned yet
C2_Witness ==
    \E o \in OptionIds :
        /\ options[o].vote_count = 2
        /\ \A p \in Procs : pc[p] \in {"refresh", "get_results", "emit"}

\* C3: no two Vote rows share (poll, ip_address) and no two share
\* (poll, browser_token).
C3_UniqueVotes ==
    \A v, w \in votes :
        (v # w /\ v.poll_id = w.poll_id) =>
            (v.ip_address # w.ip_address /\ v.browser_token # w.browser_token)

\* a poll holding two votes
C3_Witness == \E poll \in polls : Cardinality(VotesOfPoll(poll.id)) = 2

\* C4: what one handler's transaction changed is a Vote row together with its +1
\* or nothing at all, and a failed write (uniqueness violation or any other
\* storage error) changed nothing.
C4_AtomicWrite ==
    \A p \in Procs :
        /\ effect[p].increments = Cardinality(effect[p].votes)
        /\ result[p] \in {"DuplicateVote", "Failed"} => effect[p] = NoEffect

\* one write failed with a storage error while another one committed
C4_Witness ==
    \E p, q \in Procs :
        /\ result[p] = "Failed"
        /\ effect[q].votes # {}
        /\ options[req[q].option_id].vote_count = 1

PollIdOf(code) == (CHOOSE x \in PollByCode(code) : TRUE).id

\* a committed vote of the request's poll, not the request's own, with its IP or
\* its browser token
OtherVoteOfIdentity(p) ==
    \E v \in VotesOfPoll(PollIdOf(req[p].poll_code)) :
        /\ v.id \notin effect[p].votes
        /\ v.ip_address = req[p].ip \/ v.browser_token = req[p].token

\* C5: a call for an existing poll and one of its options ends DuplicateVote
\* exactly when another committed Vote of that poll carries its IP or its
\* browser token, whichever of the two; votes in other polls do not count.
C5_DuplicateIff ==
    \A p \in Procs :
        (pc[p] = "done" /\ result[p] \in {"Accepted", "DuplicateVote"}) =>
            (result[p] = "DuplicateVote" <=> OtherVoteOfIdentity(p))

\* an identity with a vote in one poll is Accepted in another poll
C5_Witness ==
    \E p \in Procs :
        /\ pc[p] = "done" /\ result[p] = "Accepted"
        /\ \E v \in votes : /\ v.poll_id # PollIdOf(req[p].poll_code)
                             /\ v.ip_address = req[p].ip
                             /\ v.browser_token = req[p].token

\* C6: a submit_vote that ends PollNotFound, InvalidOption or DuplicateVote has
\* changed no Vote row and no vote_count.
C6_FailureLeavesLedger ==
    \A p \in Procs :
        result[p] \in {"PollNotFound", "InvalidOption", "DuplicateVote"} =>
            effect[p] = NoEffect

\* a DuplicateVote raised by the constraint after the UPDATE had been executed
C6_Witness ==
    \E p \in Procs :
        /\ result[p] = "DuplicateVote" /\ response[p] = "You have already voted"
        /\ \E v \in votes : v.ip_address = req[p].ip /\ v.browser_token # req[p].token

LogIndices == 1..Len(admitLog)

\* admitted calls of ip with a timestamp in (lo, hi]
AdmittedIn(ip, lo, hi) ==
    {k \in LogIndices : /\ admitLog[k].ip = ip
                        /\ admitLog[k].allowed
                        /\ admitLog[k].time > lo
                        /\ admitLog[k].time <= hi}

Occurrences(list, t) == Cardinality({k \in 1..Len(list) : list[k] = t})

WindowBound ==
    \A ip \in IPs, t \in 0..(MaxTime + WindowSeconds) :
        Cardinality(AdmittedIn(ip, t - WindowSeconds, t)) <= MaxRequests

\* C7: for every identity and every instant t the calls admitted with a timestamp
\* in (t - window_seconds, t] never number more than max_requests, and the
\* recorded timestamps are those of admitted calls only (a rejected call records
\* nothing).
C7_SlidingWindow ==
    /\ WindowBound
    /\ \A ip \in IPs, t \in 0..MaxTime :
           Occurrences(RequestsOf(requests, ip), t) <= Cardinality(AdmittedIn(ip, t - 1, t))

\* a full window, a rejection in it, and a later admission of the same identity
C7_Witness ==
    \E ip \in IPs :
        /\ \E t \in 0..MaxTime :
               Cardinality(AdmittedIn(ip, t - WindowSeconds, t)) = MaxRequests
        /\ \E k \in LogIndices : admitLog[k].ip = ip /\ ~admitLog[k].allowed
        /\ Cardinality(AdmittedIn(ip, 0 - 1, MaxTime)) > MaxRequests

\* C8: a call is admitted exactly when fewer than max_requests earlier admitted
\* calls of the same identity lie inside the window ending at the call: the
\* first M calls in a window pass, the next is rejected, the identity is admitted
\* again once the window has passed, and other identities' calls play no part.
C8_AdmissionAndRecovery ==
    \A k \in LogIndices :
        admitLog[k].allowed <=>
            Cardinality({j \in 1..(k - 1) :
                            /\ admitLog[j].ip = admitLog[k].ip
                            /\ admitLog[j].allowed
                            /\ admitLog[j].time > admitLog[k].time - WindowSeconds})
                < MaxRequests

\* M admitted calls, the (M+1)-th rejected, another identity admitted at that same
\* instant, and the first identity admitted again later
C8_Witness ==
    /\ Len(admitLog) >= MaxRequests + 3
    /\ \A k \in 1..MaxRequests :
           /\ admitLog[k].ip = admitLog[1].ip
           /\ admitLog[k].allowed
           /\ admitLog[k].time = admitLog[1].time
    /\ LET r == admitLog[MaxRequests + 1]
       IN  /\ r.ip = admitLog[1].ip
           /\ ~r.allowed
           /\ r.time = admitLog[1].time
           /\ \E c \in LogIndices :
                  /\ c > MaxRequests + 1
                  /\ admitLog[c].ip # r.ip
                  /\ admitLog[c].allowed
                  /\ admitLog[c].time = r.time
           /\ \E b \in LogIndices :
                  /\ b > MaxRequests + 1
                  /\ admitLog[b].ip = r.ip
                  /\ admitLog[b].allowed

\* C9: with the statements of concurrent is_allowed calls interleaved, no admitted
\* timestamp still inside the window is missing from the identity's list and the
\* calls admitted within one window never number more than max_requests.
C9_ThreadSafe ==
    /\ WindowBound
    /\ \A ip \in IPs, t \in 0..MaxTime :
           t > now - WindowSeconds =>
               Occurrences(RequestsOf(requests, ip), t)
                   >= Cardinality(AdmittedIn(ip, t - 1, t))

BroadcastsBy(p) == {k \in 1..Len(broadcasts) : broadcasts[k].by = p}

\* C10: a vote submission whose IP the limiter rejected ends RateLimited, has
\* changed no Vote row and no vote_count, and has broadcast nothing.
C10_RateLimitedTouchesNothing ==
    \A p \in Procs :
        (req[p] # NoReq /\ ~req[p].admitted) =>
            /\ pc[p] = "done"
            /\ result[p] = "RateLimited"
            /\ effect[p] = NoEffect
            /\ BroadcastsBy(p) = {}

\* a rejected submission of an identity that has already voted in that poll
C10_Witness ==
    \E p \in Procs :
        /\ result[p] = "RateLimited"
        /\ PollByCode(req[p].poll_code) # {}
        /\ \E v \in VotesOfPoll(PollIdOf(req[p].poll_code)) :
               v.ip_address = req[p].ip /\ v.browser_token = req[p].token

\* t is raw without the spaces at its two ends
IsTrimOf(t, raw) ==
    \E a \in 0..Len(raw), b \in 0..Len(raw) :
        /\ a + Len(t) + b = Len(raw)
        /\ \A i \in 1..a : raw[i] = " "
        /\ \A i \in 1..b : raw[Len(raw) - i + 1] = " "
        /\ t = SubSeq(raw, a + 1, a + Len(t))
        /\ t # <<>> => (t[1] # " " /\ t[Len(t)] # " ")

Pieces(raw) == {SubSeq(raw, a, b) : a \in 1..(Len(raw) + 1), b \in 0..Len(raw)}

SameAfterTrimming(x, y) == \E t \in Pieces(x) : IsTrimOf(t, x) /\ IsTrimOf(t, y)

\* the option list breaks one of the three rules of the claim
BadOptionList(opts) ==
    \/ Len(opts) < MinOptions
    \/ Len(opts) > MaxOptionsLimit
    \/ \E i, j \in 1..Len(opts) : i # j /\ SameAfterTrimming(opts[i], opts[j])

NoRowsAdded(p) == cr[p].added = [polls |-> 0, options |-> 0]

\* C11: a create_poll call given fewer than min_options options, more than
\* max_options options, or two options that are equal after trimming ends with
\* a ValidationError, without going on to generate a code, and adds no Poll
\* row and no Option row.
C11_InvalidOptionsRejected ==
    \A p \in Procs :
        (cr[p].pc # "idle" /\ BadOptionList(cr[p].options)) =>
            /\ cr[p].pc = "done"
            /\ cr[p].outcome = "ValidationError"
            /\ NoRowsAdded(p)

\* two options that differ as sent and are equal after trimming, on a ledger
\* that already holds a poll
C11_Witness ==
    \E p \in Procs :
        /\ cr[p].pc = "done"
        /\ cr[p].outcome = "ValidationError"
        /\ Len(cr[p].options) = MinOptions
        /\ cr[p].options[1] # cr[p].options[2]
        /\ SameAfterTrimming(cr[p].options[1], cr[p].options[2])
        /\ cr[p].message = "Options must be unique"
        /\ polls # {}

\* C12: the poll a create_poll call created has exactly as many options as the
\* request listed, the option texts are the trimmed request texts in the
\* request's order (options read in id order), and every vote_count is 0.
C12_CreatedOptions ==
    \A p \in Procs :
        cr[p].outcome = "Created" =>
            LET ids == PollOptions(cr[p].poll_id)
            IN  /\ Len(ids) = Len(cr[p].options)
                /\ \A i \in 1..Len(ids) :
                       /\ IsTrimOf(options[ids[i]].option_text, cr[p].options[i])
                       /\ options[ids[i]].vote_count = 0

\* a created poll whose request carried a text with spaces around it, stored
\* after the options of an older poll
C12_Witness ==
    \E p \in Procs :
        /\ cr[p].outcome = "Created"
        /\ cr[p].poll_id > 1
        /\ \E i \in 1..Len(cr[p].options) :
               options[PollOptions(cr[p].poll_id)[i]].option_text # cr[p].options[i]

\* a create_poll call that met the unique index at commit and was started over
CollidedAtCommit(p) == cr[p].depth > 0

\* C13: creation is atomic. At every moment, also while other create_poll
\* calls are under way, a Poll row has all its options: at least min_options of
\* them, none empty, no two equal; a poll with no or only some of its options
\* is never in the tables, and a call that did not create a poll added no row.
C13_AtomicCreation ==
    /\ \A poll \in polls :
           LET ids == PollOptions(poll.id)
           IN  /\ Len(ids) >= MinOptions
               /\ \A i \in 1..Len(ids) : options[ids[i]].option_text # <<>>
               /\ \A i, j \in 1..Len(ids) :
                      i # j => options[ids[i]].option_text # options[ids[j]].option_text
    /\ \A i \in 1..Len(options) : \E poll \in polls : poll.id = options[i].poll_id
    /\ \A p \in Procs :
           /\ cr[p].outcome # "Created" => NoRowsAdded(p)
           /\ cr[p].outcome = "Created" =>
                  cr[p].added = [polls |-> 1, options |-> Len(cr[p].options)]

\* one call created its poll while another, started over after an
\* IntegrityError, is still running and a third party's poll is in the tables
C13_Witness ==
    \E p, q \in Procs :
        /\ cr[p].outcome = "Created"
        /\ CollidedAtCommit(q)
        /\ cr[q].pc = "generate"
        /\ Cardinality(polls) = 2

\* C14: no two polls share a code, also when two concurrent create_poll calls
\* drew the same candidate and both passed the existence check: one of them
\* commits, the other ends with a different code or without a poll.
C14_UniqueCodes ==
    /\ \A x, y \in polls : x.poll_code = y.poll_code => x = y
    /\ \A p, q \in Procs :
           (p # q /\ cr[p].outcome = "Created" /\ cr[q].outcome = "Created") =>
               cr[p].code # cr[q].code

\* both calls created a poll, one of them after losing the race for the other's code
C14_Witness ==
    \E p, q \in Procs :
        /\ p # q
        /\ cr[p].outcome = "Created"
        /\ cr[q].outcome = "Created"
        /\ CollidedAtCommit(q)
        /\ cr[q].attempts = 2
        /\ Cardinality(polls) = 2

\* C15: a create_poll call makes at most max_attempts (10) code-generation
\* attempts in all, whether a candidate's collision is found by the existence
\* check or by the unique index at commit; after that it stops.
C15_BoundedAttempts ==
    \A p \in Procs : cr[p].attempts <= MaxAttempts

\* the loop of _generate_unique_poll_code ran out of attempts
Exhausted(p) == cr[p].pc = "done" /\ cr[p].tries = MaxAttempts

\* C16: a create_poll call that ran out of code-generation attempts does not
\* end with a ValidationError, and the client is shown the generic failure
\* message, not the reason of the exception.
C16_ExhaustionIsInternal ==
    \A p \in Procs :
        Exhausted(p) =>
            /\ cr[p].outcome # "ValidationError"
            /\ cr[p].flash = "An error occurred. Please try again."

\* C17: every entry point that takes a poll code answers a spelling of the
\* code as it answers the code in upper case: view poll, share page, direct
\* results query, join_poll, leave_poll and request_results.
C17_CaseInsensitiveLookup ==
    lookup.entry # None => lookup.answer = AnswerOf(lookup.entry, Upper(lookup.code))

\* pct, in tenths of a percent, is count / total * 100 rounded to one decimal
NearestTenth(pct, count, total) ==
    /\ 2 * (pct * total - 1000 * count) <= total
    /\ 2 * (1000 * count - pct * total) <= total

\* C18: get_results of an existing poll returns total_votes equal to the sum
\* of the vote_count of the poll's options, the options in creation (id)
\* order with their counts, and for each option on its own the percentage
\* round(vote_count / total_votes * 100, 1); with total_votes 0 every
\* percentage is 0; for an unknown code it raises PollNotFound.
C18_Results ==
    lookup.entry = "get_results" =>
        IF PollByCode(Upper(lookup.code)) = {}
        THEN lookup.answer = Answer("404", None, NoResults)
        ELSE LET r == lookup.answer.results
                 poll == CHOOSE x \in PollByCode(Upper(lookup.code)) : TRUE
                 ids == PollOptions(poll.id)
             IN  /\ lookup.answer.status = "200"
                 /\ r.total_votes = SumCounts(options, ids)
                 /\ Len(r.options) = Cardinality(OptionsOf(poll.id))
                 /\ \A i \in 1..Len(r.options) :
                        /\ r.options[i].id \in OptionsOf(poll.id)
                        /\ r.options[i].vote_count = options[r.options[i].id].vote_count
                        /\ \A j \in 1..(i - 1) : r.options[j].id < r.options[i].id
                        /\ IF r.total_votes = 0 THEN r.options[i].percentage = 0
                           ELSE NearestTenth(r.options[i].percentage,
                                             r.options[i].vote_count, r.total_votes)

\* three options with one vote each: 33.3 three times, which is not 100 in all
C18_Witness ==
    /\ lookup.entry = "get_results"
    /\ lookup.answer.results.total_votes = 3
    /\ Len(lookup.answer.results.options) = 3
    /\ \A i \in 1..3 : lookup.answer.results.options[i].percentage = 333

\* the poll whose Vote row handler p's transaction committed
VotedPollCodes(p) ==
    {x.poll_code : x \in {y \in polls : \E v \in votes :
                              v.id \in effect[p].votes /\ v.poll_id = y.id}}

\* C19: a vote submission that ended Accepted has emitted exactly one
\* vote_update, to the room named by the stored (upper-case) code of the poll
\* it voted on, carrying the very snapshot its HTTP response carries; no
\* submission emits more than one.
C19_OneBroadcastSameSnapshot ==
    \A p \in Procs :
        /\ Cardinality(BroadcastsBy(p)) <= 1
        /\ result[p] = "Accepted" =>
               /\ Cardinality(BroadcastsBy(p)) = 1
               /\ \A k \in BroadcastsBy(p) :
                      /\ VotedPollCodes(p) = {broadcasts[k].room}
                      /\ broadcasts[k].snapshot = response[p]

\* two accepted votes on one poll whose snapshots differ, each broadcast once
C19_Witness ==
    \E p, q \in Procs :
        /\ p # q
        /\ result[p] = "Accepted"
        /\ result[q] = "Accepted"
        /\ req[p].poll_code = req[q].poll_code
        /\ response[p].total_votes # response[q].total_votes
        /\ Len(broadcasts) = 2

\* C20: the vote_update events of a room are emitted in commit order: the
\* total_votes of the snapshots sent to one room never decreases from one
\* event to the next.
C20_CommitOrder ==
    \A j, k \in 1..Len(broadcasts) :
        (j < k /\ broadcasts[j].room = broadcasts[k].room) =>
            broadcasts[j].snapshot.total_votes <= broadcasts[k].snapshot.total_votes

\* C26: a recorded timestamp exactly window_seconds old is kept by the pruning
\* and still counts: a call is admitted only when fewer than max_requests
\* earlier admitted calls of its identity have a timestamp at or after
\* now - window_seconds.
C26_BoundaryKept ==
    \A k \in LogIndices :
        admitLog[k].allowed =>
            Cardinality({j \in 1..(k - 1) :
                            /\ admitLog[j].ip = admitLog[k].ip
                            /\ admitLog[j].allowed
                            /\ admitLog[j].time >= admitLog[k].time - WindowSeconds})
                < MaxRequests

\* C24: the reply to a request_results socket event for an existing poll is a
\* vote_update carrying the payload {poll_code, question, total_votes,
\* created_at, options} that the HTTP results query returns for the same
\* tables.
C24_SamePayloadOnEveryPath ==
    (lookup.entry = "request_results" /\ PollByCode(Upper(lookup.code)) # {}) =>
        /\ lookup.answer.status = "vote_update"
        /\ lookup.answer.results = ResultsAnswer(lookup.code).results

\* snapshot r shows, option by option, the counts the Option rows opts hold
ShowsTable(r, poll_id, opts) ==
    /\ {r.options[i].id : i \in 1..Len(r.options)} = OptionsOf(poll_id)
    /\ Len(r.options) = Cardinality(OptionsOf(poll_id))
    /\ \A i \in 1..Len(r.options) : r.options[i].vote_count = opts[r.options[i].id].vote_count
    /\ r.total_votes = SumCounts(opts, PollOptions(poll_id))

\* handler p's Vote row is in the table
OwnVoteCommitted(p) ==
    /\ effect[p].votes # {}
    /\ \A id \in effect[p].votes :
           \E v \in votes : v.id = id /\ v.ip_address = req[p].ip
                            /\ v.option_id = req[p].option_id

\* C23: the snapshot of an accepted vote is read after the vote's commit: at
\* the step that reads it the handler's Vote row is committed and the snapshot
\* shows the counts of all options as the table holds them at that one moment;
\* it is kept unchanged until it is broadcast and returned, and it counts the
\* voter's own vote (its option's vote_count >= 1, total_votes >= 1).
C23_SnapshotAfterCommit ==
    [][\A p \in Procs :
         /\ (pc[p] = "refresh" /\ pc'[p] = "get_results") =>
                /\ OwnVoteCommitted(p)
                /\ ShowsTable(response'[p], loc[p].poll_id, options)
         /\ (pc[p] \in {"get_results", "emit"}) => response'[p] = response[p]
         /\ result'[p] = "Accepted" =>
                /\ response'[p].total_votes >= 1
                /\ \E i \in 1..Len(response'[p].options) :
                       /\ response'[p].options[i].id = req'[p].option_id
                       /\ response'[p].options[i].vote_count >= 1]_vars

\* a snapshot that already counts the vote of a concurrent handler which has
\* committed and not yet read its own snapshot
C23_Witness ==
    \E p, q \in Procs :
        /\ p # q
        /\ pc[q] = "refresh"
        /\ pc[p] \in {"get_results", "emit"}
        /\ req[p].poll_code = req[q].poll_code
        /\ response[p].total_votes = 2

\* a vote submission that has returned
Returned(p) == pc[p] = "done" /\ req[p] # NoReq

PollNamed(p) == PollByCode(req[p].poll_code)

\* the option id of p's request is an option of the poll its code names
NamesOptionOfPoll(p) ==
    \E poll \in PollNamed(p) :
        \E o \in DOMAIN options : o = req[p].option_id /\ options[o].poll_id = poll.id

\* C27: the outcome of a vote submission follows a fixed precedence. A request
\* the limiter rejected is RateLimited whatever its poll code; an admitted one
\* whose code names no poll is PollNotFound; InvalidOption is given exactly to
\* admitted requests whose poll exists and whose option is not one of that
\* poll's, also when the identity has voted already; DuplicateVote and Accepted
\* are given only to requests whose option belongs to the poll.
C27_OutcomePrecedence ==
    \A p \in Procs :
        Returned(p) =>
            /\ ~req[p].admitted <=> result[p] = "RateLimited"
            /\ (req[p].admitted /\ PollNamed(p) = {}) => result[p] = "PollNotFound"
            /\ result[p] = "InvalidOption" =>
                   (req[p].admitted /\ PollNamed(p) # {} /\ ~NamesOptionOfPoll(p))
            /\ result[p] \in {"DuplicateVote", "Accepted"} =>
                   (req[p].admitted /\ NamesOptionOfPoll(p))
            /\ result[p] \in {"RateLimited", "PollNotFound", "InvalidOption",
                              "DuplicateVote", "Accepted"}

\* an identity with a committed vote in the poll gets InvalidOption for an
\* option of another poll
C27_Witness ==
    \E p, q \in Procs :
        /\ result[q] = "Accepted"
        /\ result[p] = "InvalidOption"
        /\ req[p].poll_code = req[q].poll_code
        /\ req[p].ip = req[q].ip
        /\ req[p].token = req[q].token
        /\ req[p].option_id \in DOMAIN options

Used(reqs, ip) == Len(RequestsOf(reqs, ip))

\* C28: poll creation and vote submission draw on one budget per IP. Inside
\* one window the recorded requests of an IP never exceed max_requests and are
\* never given back whatever the ledger answers; a vote request arriving when
\* its IP has used max_requests is RateLimited and records nothing, any other
\* is admitted and uses one unit; a poll is created only by a request that
\* found a unit left and used it.
C28_SharedBudget ==
    [][/\ \A ip \in IPs :
              /\ Used(requests', ip) <= MaxRequests
              /\ Used(requests', ip) >= Used(requests, ip)
       /\ \A p \in Procs :
              (pc[p] = "idle" /\ pc'[p] # "idle") =>
                  IF Used(requests, req'[p].ip) >= MaxRequests
                  THEN /\ result'[p] = "RateLimited"
                       /\ Used(requests', req'[p].ip) = Used(requests, req'[p].ip)
                  ELSE /\ req'[p].admitted
                       /\ result'[p] # "RateLimited"
                       /\ Used(requests', req'[p].ip) = Used(requests, req'[p].ip) + 1
       /\ polls' # polls =>
              \E ip \in IPs : /\ Used(requests, ip) < MaxRequests
                              /\ Used(requests', ip) = Used(requests, ip) + 1]_vars

\* one IP created the poll, then made a vote attempt the ledger refused, and
\* its next vote request is rate limited
C28_Witness ==
    \E ip \in IPs, p, q \in Procs :
        /\ Cardinality(polls) = 1
        /\ \A other \in IPs \ {ip} : Used(requests, other) = 0
        /\ Used(requests, ip) = MaxRequests
        /\ req[p].ip = ip
        /\ result[p] \in {"PollNotFound", "InvalidOption"}
        /\ req[q].ip = ip
        /\ result[q] = "RateLimited"

BroadcastsTo(room) == {k \in 1..Len(broadcasts) : broadcasts[k].room = room}

VotesOfCode(code) == {v \in votes : \E poll \in PollByCode(code) : v.poll_id = poll.id}

\* C29: a vote_update is emitted only by an Accepted vote of the room's poll:
\* a submission that ended RateLimited, PollNotFound, InvalidOption or
\* DuplicateVote has emitted nothing, every event's sender is an Accepted
\* handler with a committed vote in the room's poll, the events sent to a room
\* never outnumber the votes committed for its poll, and the option of every
\* stored Vote is an option of the Vote's poll.
C29_BroadcastOnlyByAccepted ==
    /\ \A p \in Procs :
           result[p] \in {"RateLimited", "PollNotFound", "InvalidOption", "DuplicateVote"}
               => BroadcastsBy(p) = {}
    /\ \A k \in 1..Len(broadcasts) :
           /\ result[broadcasts[k].by] = "Accepted"
           /\ \E v \in VotesOfCode(broadcasts[k].room) :
                  v.id \in effect[broadcasts[k].by].votes
    /\ \A code \in PollCodes :
           Cardinality(BroadcastsTo(code)) <= Cardinality(VotesOfCode(code))
    /\ \A v \in votes :
           /\ v.option_id \in DOMAIN options
           /\ options[v.option_id].poll_id = v.poll_id

\* two polls exist; one vote of a poll was accepted and broadcast, a second
\* submission to the same poll ended DuplicateVote and emitted nothing
C29_Witness ==
    \E p, q \in Procs :
        /\ Cardinality(polls) = 2
        /\ result[q] = "Accepted"
        /\ result[p] = "DuplicateVote"
        /\ req[p].poll_code = req[q].poll_code
        /\ Cardinality(BroadcastsTo(req[q].poll_code)) = 1
        /\ Cardinality(VotesOfCode(req[q].poll_code)) = 1

\* C21: a voter whose Vote row was committed receives the success response,
\* whatever fails afterwards while the snapshot is built or the broadcast is
\* delivered.
C21_CommittedVoteSucceeds ==
    \A p \in Procs : (Returned(p) /\ OwnVoteCommitted(p)) => result[p] = "Accepted"

\* C25: a vote submission that ended with a failure outcome (PollNotFound,
\* InvalidOption, DuplicateVote or the generic failure) has no Vote row of its
\* own in the table.
C25_FailureMeansNoVote ==
    \A p \in Procs :
        result[p] \in {"PollNotFound", "InvalidOption", "DuplicateVote", "Failed"} =>
            ~\E v \in votes : v.id \in effect[p].votes

\* sid is in the room of poll code `room`
Subscribed(rms, sid, room) == room \in rms[sid]

\* the step is a socket event of client sid, of the given kind
SocketEvent(sid, entry) ==
    /\ lookup' # lookup
    /\ lookup'.sid = sid
    /\ lookup'.entry = entry

\* C22: room membership decides delivery. A client enters the room of a poll
\* code only by its own join_poll naming the code in any spelling, stays in it
\* until its own leave_poll of that code or its disconnect, and is out of it
\* afterwards; a vote_update emitted for a code reaches exactly the clients in
\* the code's room at that moment, and no one receives anything otherwise; an
\* emit to an empty room delivers nothing and the vote still ends Accepted.
C22_RoomDelivery ==
    [][ /\ \A sid \in Sids, room \in PollCodes :
              /\ (~Subscribed(rooms, sid, room) /\ Subscribed(rooms', sid, room)) =>
                     (SocketEvent(sid, "join_poll") /\ Upper(lookup'.code) = room)
              /\ (Subscribed(rooms, sid, room) /\ ~Subscribed(rooms', sid, room)) =>
                     \/ SocketEvent(sid, "leave_poll") /\ Upper(lookup'.code) = room
                     \/ SocketEvent(sid, "disconnect")
              /\ (SocketEvent(sid, "join_poll") /\ Upper(lookup'.code) = room) =>
                     Subscribed(rooms', sid, room)
              /\ (SocketEvent(sid, "leave_poll") /\ Upper(lookup'.code) = room) =>
                     ~Subscribed(rooms', sid, room)
              /\ SocketEvent(sid, "disconnect") => ~Subscribed(rooms', sid, room)
        /\ IF Len(broadcasts') = Len(broadcasts) + 1
           THEN LET k == Len(broadcasts')
                    b == broadcasts'[k]
                IN  /\ \A sid \in Sids :
                          inbox'[sid] = IF Subscribed(rooms, sid, b.room)
                                        THEN Append(inbox[sid], k)
                                        ELSE inbox[sid]
                    /\ result'[b.by] = "Accepted"
                    /\ rooms' = rooms
           ELSE inbox' = inbox
      ]_vars

\* broadcast k is in the inbox of sid
Received(sid, k) == \E i \in 1..Len(inbox[sid]) : inbox[sid][i] = k

\* two votes of poll P1 were accepted and broadcast: the first when the room was
\* empty reached no one, the second reached s1 and not s2, which is connected
\* but not in the room when the state is taken
C22_Witness ==
    /\ Len(broadcasts) = 2
    /\ broadcasts[1].room = "P1"
    /\ broadcasts[2].room = "P1"
    /\ result[broadcasts[1].by] = "Accepted"
    /\ \A sid \in Sids : ~Received(sid, 1)
    /\ Received("s1", 2)
    /\ ~Received("s2", 2)
    /\ Connected("s2")
    /\ ~Subscribed(rooms, "s2", "P1")

====
